---- MODULE Spec2Model ----
(***************************************************************************)
(* Model of the economic-model service: the computation core               *)
(* (src/economic_model.py: CobbDouglasModel, DemandModel) and the request  *)
(* handlers in front of it (src/main.py).                                  *)
(*                                                                         *)
(* Numbers.  Python floats are modelled by exact arithmetic:               *)
(*   - a rational is a record [n, d] in lowest terms with d > 0;           *)
(*   - a float value is c * b1^e1 * ... * bk^ek with c rational, distinct  *)
(*     rational bases bi > 0, bi # 1 and exponents 0 < ei < 1, written     *)
(*     [t |-> "float", c |-> c, f |-> [bi |-> ei]].  The integer part of   *)
(*     an exponent is folded into c, so that K^(a-1) * K and K^a are the   *)
(*     same record.  "Within tolerance" of the floats is equality here.    *)
(*     The properties below compare two irrational values only where the   *)
(*     one base is 2, where equal values have equal records.               *)
(*   - a negative float raised to a non-integer power is a Python complex, *)
(*     written [t |-> "complex"].                                          *)
(* An outcome of a call is [kind |-> "return", value |-> v] or             *)
(* [kind |-> "raise", exc |-> name].                                       *)
(***************************************************************************)
EXTENDS Integers, Sequences, FiniteSets, TLC

\* ------------------------------------------------------------------------
\* Rational arithmetic
\* ------------------------------------------------------------------------

Abs(x) == IF x < 0 THEN -x ELSE x

RECURSIVE Gcd(_, _)
Gcd(a, b) == IF b = 0 THEN a ELSE Gcd(b, a % b)

Lcm(a, b) == (a * b) \div Gcd(a, b)

\* n/d with the common factor g > 0 divided out and the sign in n
Reduced(n, d, g) ==
    IF d < 0 THEN [n |-> (-n) \div g, d |-> (-d) \div g]
    ELSE [n |-> n \div g, d |-> d \div g]

\* n/d in lowest terms, d # 0.
Rat(n, d) == Reduced(n, d, Gcd(Abs(n), Abs(d)))

RInt(i) == [n |-> i, d |-> 1]
RZero == RInt(0)
ROne == RInt(1)

RAdd(x, y) == Rat(x.n * y.d + y.n * x.d, x.d * y.d)
RNeg(x) == [n |-> -x.n, d |-> x.d]
RSub(x, y) == Rat(x.n * y.d - y.n * x.d, x.d * y.d)
RMul(x, y) == Rat(x.n * y.n, x.d * y.d)
\* y # 0
RQuot(x, y) == Rat(x.n * y.d, x.d * y.n)
RLt(x, y) == x.n * y.d < y.n * x.d
RLe(x, y) == x.n * y.d <= y.n * x.d
RIsZero(x) == x.n = 0
RIsInt(x) == x.d = 1
RAbs(x) == [n |-> Abs(x.n), d |-> x.d]
\* floor(x): \div rounds toward minus infinity and x.d > 0
RFloor(x) == x.n \div x.d

RECURSIVE IPow(_, _)
IPow(b, k) == IF k = 0 THEN 1 ELSE b * IPow(b, k - 1)

\* x^k for an integer k (x # 0 when k < 0)
RPowInt(x, k) ==
    IF k >= 0 THEN Rat(IPow(x.n, k), IPow(x.d, k))
    ELSE Rat(IPow(x.d, -k), IPow(x.n, -k))

\* ------------------------------------------------------------------------
\* Outcomes of a Python call
\* ------------------------------------------------------------------------

Return(v) == [kind |-> "return", value |-> v]
Raise(e) == [kind |-> "raise", exc |-> e]
Raised(o) == o.kind = "raise"

\* ------------------------------------------------------------------------
\* Python float values
\* ------------------------------------------------------------------------

NoFactors == [b \in {} |-> RZero]

Float(c) == [t |-> "float", c |-> c, f |-> NoFactors]
Complex == [t |-> "complex"]
IsFloat(v) == v.t = "float"

\* the exponent of base b in the factor map f (0 when absent)
ExpOf(f, b) == IF b \in DOMAIN f THEN f[b] ELSE RZero

\* the product of the rationals of S
RECURSIVE Product(_)
Product(S) ==
    IF S = {} THEN ROne
    ELSE RMul(CHOOSE x \in S : TRUE, Product(S \ {CHOOSE x \in S : TRUE}))

\* the fractional parts of the exponents e[b], each in [0, 2), that are not 0
Fractions(e) ==
    [b \in {x \in DOMAIN e : e[x] # RZero /\ e[x] # ROne} |->
        IF RLe(ROne, e[b]) THEN RSub(e[b], ROne) ELSE e[b]]

\* c * prod b^e[b] as a float value, every e[b] in [0, 2): the whole part
\* of an exponent goes into the coefficient
FloatOf(c, e) ==
    IF RIsZero(c) THEN Float(RZero)
    ELSE [t |-> "float",
          c |-> RMul(c, Product({b \in DOMAIN e : RLe(ROne, e[b])})),
          f |-> Fractions(e)]

\* u * v
FMul(u, v) ==
    IF ~IsFloat(u) \/ ~IsFloat(v) THEN Complex
    ELSE FloatOf(RMul(u.c, v.c),
                 [b \in DOMAIN u.f \cup DOMAIN v.f |->
                     RAdd(ExpOf(u.f, b), ExpOf(v.f, b))])

\* u + v, defined in the model for two floats with the same irrational part
FAdd(u, v) ==
    IF ~IsFloat(u) \/ ~IsFloat(v) THEN Complex
    ELSE IF RIsZero(u.c) THEN v
    ELSE IF RIsZero(v.c) THEN u
    ELSE IF u.f = v.f
         THEN (IF RIsZero(RAdd(u.c, v.c)) THEN Float(RZero)
               ELSE [t |-> "float", c |-> RAdd(u.c, v.c), f |-> u.f])
         ELSE [t |-> "sum", l |-> u, r |-> v]

\* base ** exp for base # 0 that has a real value: base^floor(exp) times
\* base^frac, with frac = exp - floor(exp) in [0, 1)
PowerOf(base, c, frac) ==
    IF RIsZero(frac) \/ base = ROne THEN Float(c)
    ELSE [t |-> "float", c |-> c, f |-> [b \in {base} |-> frac]]

\* base ** exp on Python floats (float.__pow__):
\*   x ** 0 is 1.0 for every x; 0.0 ** negative raises ZeroDivisionError;
\*   negative ** non-integer is a complex number; 1.0 ** y is 1.0.
Pow(base, exp) ==
    IF RIsZero(exp) THEN Return(Float(ROne))
    ELSE IF RIsZero(base)
         THEN (IF RLt(exp, RZero) THEN Raise("ZeroDivisionError")
               ELSE Return(Float(RZero)))
    ELSE IF RLt(base, RZero) /\ ~RIsInt(exp) THEN Return(Complex)
    ELSE Return(PowerOf(base, RPowInt(base, RFloor(exp)),
                        RSub(exp, RInt(RFloor(exp)))))

\* 1 when y is rounded up to q + 1 and 0 when it is rounded down to
\* q = floor(y): up above the half, to the even one at the half
HalfEven(y, q) ==
    IF 2 * y.n - 2 * q * y.d > y.d THEN 1
    ELSE IF 2 * y.n - 2 * q * y.d = y.d THEN q % 2
    ELSE 0

\* the integer nearest to y, ties to the even one, over scale
RoundScaled(y, scale) == Rat(RFloor(y) + HalfEven(y, RFloor(y)), scale)

\* round(x, ndigits) on a rational float: the nearest multiple of
\* 10^-ndigits, ties to the even one.
Round(x, ndigits) ==
    RoundScaled(RMul(x, RInt(IPow(10, ndigits))), IPow(10, ndigits))

\* round(v, ndigits) on a float value: computed when v is rational, kept as
\* the rounding of the exact value otherwise
RoundF(v, ndigits) ==
    IF IsFloat(v) /\ v.f = NoFactors THEN Float(Round(v.c, ndigits))
    ELSE [t |-> "rounded", ndigits |-> ndigits, of |-> v]

\* ------------------------------------------------------------------------
\* CobbDouglasModel (src/economic_model.py)
\* ------------------------------------------------------------------------

\* __init__: self.A, self.alpha, self.beta
CobbDouglasModel(tfp, alpha, beta) == [A |-> tfp, alpha |-> alpha, beta |-> beta]

\* coefficient * p1 * p2 for the outcomes p1, p2 of the two powers, the
\* first one evaluated first
Times(coefficient, p1, p2) ==
    IF Raised(p1) THEN p1
    ELSE IF Raised(p2) THEN p2
    ELSE Return(FMul(FMul(Float(coefficient), p1.value), p2.value))

\* self.A * (capital ** self.alpha) * (labor ** self.beta)
production(self, capital, labor) ==
    Times(self.A, Pow(capital, self.alpha), Pow(labor, self.beta))

\* A faulty marginal product of capital, the exponent of capital left at
\* alpha: the variant the Euler identity is tested against.
marginal_product_capital_same_exponent(self, capital, labor) ==
    Times(RMul(self.alpha, self.A),
          Pow(capital, self.alpha), Pow(labor, self.beta))

\* self.alpha * self.A * (capital ** (self.alpha - 1)) * (labor ** self.beta)
marginal_product_capital(self, capital, labor) ==
    Times(RMul(self.alpha, self.A),
          Pow(capital, RSub(self.alpha, ROne)), Pow(labor, self.beta))

\* self.beta * self.A * (capital ** self.alpha) * (labor ** (self.beta - 1))
marginal_product_labor(self, capital, labor) ==
    Times(RMul(self.beta, self.A),
          Pow(capital, self.alpha), Pow(labor, RSub(self.beta, ROne)))

\* bounds = [(0.01, None), (0.01, None)]
LowerBound == Rat(1, 100)

\* budget - (capital_price * K + labor_price * L)
budget_constraint(budget, capital_price, labor_price, x) ==
    RSub(budget, RAdd(RMul(capital_price, x[1]), RMul(labor_price, x[2])))

\* a and b with their common factor divided out
Coprime(a, b) == <<a \div Gcd(a, b), b \div Gcd(a, b)>>

\* The integer exponents (a, b) with K^alpha * L^beta = (K^a * L^b)^(1/m) for
\* some m > 0 (alpha, beta > 0): the order of two production values is the
\* order of K^a * L^b.
CDExponents(self) ==
    Coprime(self.alpha.n * (Lcm(self.alpha.d, self.beta.d) \div self.alpha.d),
            self.beta.n * (Lcm(self.alpha.d, self.beta.d) \div self.beta.d))

\* the sign of rk^a * rl^b - 1 for rationals rk, rl > 0 and e = (a, b)
PowerDiff(rk, rl, e) ==
    IPow(rk.n, e[1]) * IPow(rl.n, e[2]) - IPow(rk.d, e[1]) * IPow(rl.d, e[2])

\* A * v < A * w, given diff with the sign of v - w (v, w > 0)
ScaledLess(A, diff) ==
    IF A.n > 0 THEN diff < 0
    ELSE IF A.n < 0 THEN diff > 0
    ELSE FALSE

\* production(y) < production(x) for points x, y with positive coordinates
ProductionLess(self, y, x) ==
    ScaledLess(self.A,
               PowerDiff(RQuot(y[1], x[1]), RQuot(y[2], x[2]), CDExponents(self)))

\* A faulty objective, the production not negated: the solver then minimises
\* the output.
objective_not_negated_less(self, x, y) == ProductionLess(self, x, y)

\* objective(x) < objective(y), where objective(x) is -self.production(K, L)
objective_less(self, x, y) == ProductionLess(self, y, x)

\* The resolution at which the solver's answer is exact.
SolverStep == Rat(1, 10000)

\* the point of the budget line with capital K
OnBudgetLine(K, budget, capital_price, labor_price) ==
    <<K, RQuot(RSub(budget, RMul(capital_price, K)), labor_price)>>

\* the points of the budget line, SolverStep apart in K
BudgetLinePoint(k, budget, capital_price, labor_price) ==
    OnBudgetLine(RMul(RInt(k), SolverStep), budget, capital_price, labor_price)

\* the steps k whose point satisfies the bounds: K >= 0.01, and L >= 0.01,
\* which is K <= (budget - labor_price * 0.01) / capital_price
FeasibleSteps(budget, capital_price, labor_price) ==
    (-RFloor(RNeg(RQuot(LowerBound, SolverStep)))) ..
    RFloor(RQuot(RQuot(RSub(budget, RMul(labor_price, LowerBound)),
                       capital_price),
                 SolverStep))

\* step j is feasible and its point has a smaller objective than step k's
Better(self, j, k, feasible, budget, capital_price, labor_price) ==
    /\ j \in feasible
    /\ objective_less(self,
                      BudgetLinePoint(j, budget, capital_price, labor_price),
                      BudgetLinePoint(k, budget, capital_price, labor_price))

\* the feasible steps neither of whose neighbours is better
LocalMinima(self, feasible, budget, capital_price, labor_price) ==
    {k \in feasible :
        /\ ~Better(self, k - 1, k, feasible, budget, capital_price, labor_price)
        /\ ~Better(self, k + 1, k, feasible, budget, capital_price, labor_price)}

Least(S) == CHOOSE k \in S : \A j \in S : k <= j

\* x moved into the bounds
Clipped(x) ==
    <<IF RLt(x[1], LowerBound) THEN LowerBound ELSE x[1],
      IF RLt(x[2], LowerBound) THEN LowerBound ELSE x[2]>>

MinimizeOver(self, initial_guess, feasible, budget, capital_price, labor_price) ==
    IF feasible = {}
    THEN [success |-> FALSE, x |-> Clipped(initial_guess)]
    ELSE [success |-> TRUE,
          x |-> BudgetLinePoint(
                    Least(LocalMinima(self, feasible, budget,
                                      capital_price, labor_price)),
                    budget, capital_price, labor_price)]

\* scipy.optimize.minimize(objective, initial_guess, method='SLSQP',
\*                         bounds=bounds, constraints=constraints),
\* by its contract: with success, x is a local minimiser of the objective
\* among the points that satisfy the bounds and the equality constraint
\* (exact to SolverStep along the budget line).  When no point satisfies
\* both, the solver reports failure and x is a point within the bounds, here
\* the initial guess moved into them; nothing in the model depends on which
\* point of the bounds it is.
Minimize(self, initial_guess, budget, capital_price, labor_price) ==
    MinimizeOver(self, initial_guess,
                 FeasibleSteps(budget, capital_price, labor_price),
                 budget, capital_price, labor_price)

\* ------------------------------------------------------------------------
\* DemandModel (src/economic_model.py)
\* ------------------------------------------------------------------------

\* base_quantity * p for the outcome p of the power
Scaled(base_quantity, p) ==
    IF Raised(p) THEN p ELSE Return(FMul(Float(base_quantity), p.value))

\* A faulty demand, the price not divided by the base price.
demand_quantity_unscaled(price, elasticity, base_price, base_quantity) ==
    IF RIsZero(base_price) THEN Raise("ZeroDivisionError")
    ELSE Scaled(base_quantity, Pow(price, elasticity))

\* base_quantity * ((price / base_price) ** elasticity)
demand_quantity(price, elasticity, base_price, base_quantity) ==
    IF RIsZero(base_price) THEN Raise("ZeroDivisionError")
    ELSE Scaled(base_quantity, Pow(RQuot(price, base_price), elasticity))

\* price * quantity
revenue(price, elasticity, base_price, base_quantity) ==
    Scaled(price, demand_quantity(price, elasticity, base_price, base_quantity))

ElasticityError == "Elasticity must be negative for downward-sloping demand"

\* the result mapping of optimal_price for the unrounded price
PriceResult(price, marginal_cost) ==
    [optimal_price |-> Round(price, 2),
     markup_percentage |->
         Round(RMul(RQuot(RSub(price, marginal_cost), marginal_cost),
                    RInt(100)), 2)]

\* marginal_cost / (1 + 1/elasticity), then the markup over marginal_cost
Markup(marginal_cost, denominator) ==
    IF RIsZero(denominator) \/ RIsZero(marginal_cost)
    THEN Raise("ZeroDivisionError")
    ELSE Return(PriceResult(RQuot(marginal_cost, denominator), marginal_cost))

\* A faulty optimal_price, its guard elasticity > 0: elasticity 0 reaches
\* the division 1/elasticity.
optimal_price_strict_guard(elasticity, marginal_cost) ==
    IF RLt(RZero, elasticity)
    THEN Return([error |-> ElasticityError])
    ELSE IF RIsZero(elasticity) THEN Raise("ZeroDivisionError")
    ELSE Markup(marginal_cost, RAdd(ROne, RQuot(ROne, elasticity)))

\* if elasticity >= 0: return {'error': ...}; else the markup formula
optimal_price(elasticity, marginal_cost) ==
    IF RLe(RZero, elasticity)
    THEN Return([error |-> ElasticityError])
    ELSE Markup(marginal_cost, RAdd(ROne, RQuot(ROne, elasticity)))

\* ------------------------------------------------------------------------
\* Inputs of the model
\* ------------------------------------------------------------------------

MaxQty == 2
MaxBudgetCents == 6
MaxPrice == 4
MaxElasticityHalves == 4

\* capital and labor of a direct call, the non-positive ones included
Quantities == {RInt(n) : n \in -1..MaxQty}
\* budgets of 0.01 .. MaxBudgetCents/100: around the smallest budgets the
\* bounds of 0.01 allow
Budgets == {Rat(n, 100) : n \in 1..MaxBudgetCents}
\* capital_price and labor_price: equal prices and a price ratio of MaxPrice
Prices == {ROne, RInt(MaxPrice)}
DemandPrices == {ROne, RInt(2)}
BasePrices == {RZero, ROne, RInt(2)}
BaseQuantities == {RInt(-1), RInt(1000)}
\* elasticities -MaxElasticityHalves/2 .. 1 in steps of 1/2
Elasticities == {Rat(n, 2) : n \in -MaxElasticityHalves..2}
Costs == {RInt(-1), RZero, ROne, RInt(10)}

\* (tfp, alpha, beta) of the production functions of the model: constant
\* returns to scale with alpha # beta and with alpha = beta, and decreasing
\* returns
Parameters == { <<RInt(1), Rat(1, 3), Rat(2, 3)>>,
                <<RInt(2), Rat(1, 2), Rat(1, 2)>>,
                <<RInt(1), Rat(1, 3), Rat(1, 3)>> }
Models == {CobbDouglasModel(p[1], p[2], p[3]) : p \in Parameters}

\* initial_guess = [budget / (2 * capital_price), budget / (2 * labor_price)]
InitialGuess(budget, capital_price, labor_price) ==
    <<RQuot(budget, RMul(RInt(2), capital_price)),
      RQuot(budget, RMul(RInt(2), labor_price))>>

\* the optimisation problems of the model
Problems ==
    { [self |-> self, budget |-> budget, capital_price |-> capital_price,
       labor_price |-> labor_price] :
      self \in Models, budget \in Budgets,
      capital_price \in Prices, labor_price \in Prices }

\* The solver's result on every optimisation problem of the model, computed
\* once: the set of (problem, result) pairs.
SolverTable ==
    { [problem |-> p,
       result |-> Minimize(p.self,
                           InitialGuess(p.budget, p.capital_price, p.labor_price),
                           p.budget, p.capital_price, p.labor_price)] :
      p \in Problems }

\* result = minimize(objective, initial_guess, ...)
SolverResult(self, budget, capital_price, labor_price) ==
    (CHOOSE e \in SolverTable :
        e.problem = [self |-> self, budget |-> budget,
                     capital_price |-> capital_price,
                     labor_price |-> labor_price]).result

\* the mapping optimal_allocation returns for optimal_K, optimal_L and the
\* outcomes of production and of the two marginal products at that point
Allocation(optimal_K, optimal_L, optimal_output, mpk, mpl) ==
    IF Raised(optimal_output) THEN optimal_output
    ELSE IF Raised(mpk) THEN mpk
    ELSE IF Raised(mpl) THEN mpl
    ELSE Return([capital |-> Round(optimal_K, 2),
                 labor |-> Round(optimal_L, 2),
                 output |-> RoundF(optimal_output.value, 2),
                 mpk |-> RoundF(mpk.value, 4),
                 mpl |-> RoundF(mpl.value, 4)])

\* optimal_allocation once the solver has returned x: whether the solver
\* succeeded is not looked at
AllocationFrom(self, x) ==
    Allocation(x[1], x[2],
               production(self, x[1], x[2]),
               marginal_product_capital(self, x[1], x[2]),
               marginal_product_labor(self, x[1], x[2]))

optimal_allocation(self, budget, capital_price, labor_price) ==
    IF RIsZero(capital_price) \/ RIsZero(labor_price)
    THEN Raise("ZeroDivisionError")
    ELSE AllocationFrom(self,
                        SolverResult(self, budget, capital_price, labor_price).x)

\* ------------------------------------------------------------------------
\* Request fields (src/main.py)
\* ------------------------------------------------------------------------

\* a JSON field of a request: a number, null, or not sent
Num(v) == [k |-> "num", v |-> v]
Null == [k |-> "null"]
Absent == [k |-> "absent"]
IsNum(f) == f.k = "num"

\* float = Field(gt=0): present, a number, greater than 0
ValidPositive(f) == IsNum(f) /\ RLt(RZero, f.v)
\* float = Field(): present and a number
ValidRequired(f) == IsNum(f)
\* Optional[float] = default: the default when not sent, None for null
WithDefault(f, default) == IF f.k = "absent" THEN Num(default) ELSE f

\* ------------------------------------------------------------------------
\* State
\* ------------------------------------------------------------------------

VARIABLES
    model,     \* the CobbDouglasModel instance of the direct calls (self)
    model0,    \* the parameters that instance was constructed with
    op,        \* the last operation or handler
    args,      \* its arguments (a handler's: the request)
    result,    \* its outcome (a handler's: the response)
    calls,     \* the core calls it made: <<[fn, self, args, out], ...>>
    solver     \* the result of the solver call it made, if any

vars == <<model, model0, op, args, result, calls, solver>>

NoSolver == [called |-> FALSE]
Solved(res) == [called |-> TRUE, success |-> res.success, x |-> res.x]

Init ==
    /\ model \in Models
    /\ model0 = model
    /\ op = "init"
    /\ args = [none |-> TRUE]
    /\ result = [kind |-> "none"]
    /\ calls = <<>>
    /\ solver = NoSolver

\* one core call, as the log keeps it
Call(fn, self, a, out) == [fn |-> fn, self |-> self, args |-> a, out |-> out]
\* the static methods of DemandModel have no instance
Static == [A |-> RZero, alpha |-> RZero, beta |-> RZero]

\* ------------------------------------------------------------------------
\* Direct calls of the core
\* ------------------------------------------------------------------------

Direct(name, self, a, out, sol) ==
    /\ op' = name
    /\ args' = a
    /\ result' = out
    /\ calls' = <<Call(name, self, a, out)>>
    /\ solver' = sol

Production(capital, labor) ==
    /\ Direct("production", model,
              [capital |-> Num(capital), labor |-> Num(labor)],
              production(model, capital, labor), NoSolver)
    /\ UNCHANGED <<model, model0>>

MarginalProductCapital(capital, labor) ==
    /\ Direct("marginal_product_capital", model,
              [capital |-> Num(capital), labor |-> Num(labor)],
              marginal_product_capital(model, capital, labor), NoSolver)
    /\ UNCHANGED <<model, model0>>

MarginalProductLabor(capital, labor) ==
    /\ Direct("marginal_product_labor", model,
              [capital |-> Num(capital), labor |-> Num(labor)],
              marginal_product_labor(model, capital, labor), NoSolver)
    /\ UNCHANGED <<model, model0>>

\* the solver result a faulty optimal_allocation takes: the one kept from the
\* previous call when there is one
Remembered(previous, fresh) ==
    IF previous.called THEN [success |-> previous.success, x |-> previous.x]
    ELSE fresh

MemoisedAllocation(self, a, res) ==
    /\ Direct("optimal_allocation", self, a, AllocationFrom(self, res.x),
              Solved(res))
    /\ UNCHANGED <<model, model0>>

\* A faulty optimal_allocation that keeps the solver's result on the instance
\* and reuses it whatever the arguments of the next call.
OptimalAllocationMemoised(budget, capital_price, labor_price) ==
    MemoisedAllocation(model,
                       [budget |-> Num(budget),
                        capital_price |-> Num(capital_price),
                        labor_price |-> Num(labor_price)],
                       Remembered(solver,
                                  SolverResult(model, budget, capital_price,
                                               labor_price)))

OptimalAllocation(budget, capital_price, labor_price) ==
    /\ Direct("optimal_allocation", model,
              [budget |-> Num(budget), capital_price |-> Num(capital_price),
               labor_price |-> Num(labor_price)],
              optimal_allocation(model, budget, capital_price, labor_price),
              Solved(SolverResult(model, budget, capital_price, labor_price)))
    /\ UNCHANGED <<model, model0>>

DemandQuantity(price, elasticity, base_price, base_quantity) ==
    /\ Direct("demand_quantity", Static,
              [price |-> Num(price), elasticity |-> Num(elasticity),
               base_price |-> Num(base_price),
               base_quantity |-> Num(base_quantity)],
              demand_quantity(price, elasticity, base_price, base_quantity),
              NoSolver)
    /\ UNCHANGED <<model, model0>>

Revenue(price, elasticity, base_price, base_quantity) ==
    /\ Direct("revenue", Static,
              [price |-> Num(price), elasticity |-> Num(elasticity),
               base_price |-> Num(base_price),
               base_quantity |-> Num(base_quantity)],
              revenue(price, elasticity, base_price, base_quantity),
              NoSolver)
    /\ UNCHANGED <<model, model0>>

OptimalPrice(elasticity, marginal_cost) ==
    /\ Direct("optimal_price", Static,
              [elasticity |-> Num(elasticity),
               marginal_cost |-> Num(marginal_cost)],
              optimal_price(elasticity, marginal_cost), NoSolver)
    /\ UNCHANGED <<model, model0>>

\* ------------------------------------------------------------------------
\* Request handlers (src/main.py)
\* ------------------------------------------------------------------------

\* the fields the requests of the model carry
ReqQuantities == {Null, Num(RZero), Num(ROne), Num(RInt(2))}
ReqBudgets == {Null, Num(RZero), Num(Rat(2, 100)), Num(Rat(MaxBudgetCents, 100))}
ReqPrices == {Null, Num(RZero), Num(ROne)}
ReqDemandPrices == {Null, Num(RZero), Num(RInt(2))}
ReqElasticities == {Null, Num(Rat(-3, 2))}
ReqBasePrices == {Absent, Null, Num(RInt(-1)), Num(RZero), Num(RInt(2))}
ReqBaseQuantities == {Absent, Null}
ReqPriceElasticities == {Null, Num(RInt(-2)), Num(RInt(-1)), Num(RZero)}
ReqCosts == {Null, Num(RZero), Num(RInt(10))}
\* the production function of the /optimize requests
ReqOptimizeParameters == {<<RInt(1), Rat(1, 3), Rat(2, 3)>>}

\* the request is rejected by its schema
Unprocessable == [status |-> 422]
\* an exception of the handler
ServerError(out) == [status |-> 500, exc |-> out.exc]
Ok(body) == [status |-> 200, body |-> body]

Handled(name, request, response, log, sol) ==
    /\ op' = name
    /\ args' = request
    /\ result' = response
    /\ calls' = log
    /\ solver' = sol

\* round(v, ndigits) of the handlers raises TypeError on a complex number
Rounds(v) == IsFloat(v)

\* the response of calculate_production for the outcomes of its three calls
ProductionResponse(request, output, mpk, mpl) ==
    IF Raised(output) THEN ServerError(output)
    ELSE IF Raised(mpk) THEN ServerError(mpk)
    ELSE IF Raised(mpl) THEN ServerError(mpl)
    ELSE IF ~(Rounds(output.value) /\ Rounds(mpk.value) /\ Rounds(mpl.value))
         THEN ServerError(Raise("TypeError"))
    ELSE Ok([output |-> RoundF(output.value, 2),
             marginal_product_capital |-> RoundF(mpk.value, 4),
             marginal_product_labor |-> RoundF(mpl.value, 4),
             returns_to_scale |-> RAdd(request.alpha, request.beta)])

\* the core calls of calculate_production, up to the first one that raises
ProductionLog(self, a, output, mpk, mpl) ==
    IF Raised(output) THEN <<Call("production", self, a, output)>>
    ELSE IF Raised(mpk)
         THEN <<Call("production", self, a, output),
                Call("marginal_product_capital", self, a, mpk)>>
    ELSE <<Call("production", self, a, output),
           Call("marginal_product_capital", self, a, mpk),
           Call("marginal_product_labor", self, a, mpl)>>

Produced(request, self, a, output, mpk, mpl) ==
    Handled("calculate_production", request,
            ProductionResponse(request, output, mpk, mpl),
            ProductionLog(self, a, output, mpk, mpl), NoSolver)

\* class ProductionRequest(BaseModel)
ProductionRequest(capital, labor, tfp, alpha, beta) ==
    [capital |-> capital, labor |-> labor,
     tfp |-> tfp, alpha |-> alpha, beta |-> beta]

\* the body of the handler of POST /production for a parsed request
calculate_production(request) ==
    IF ~(ValidPositive(request.capital) /\ ValidPositive(request.labor))
    THEN Handled("calculate_production", request, Unprocessable, <<>>, NoSolver)
    ELSE LET self == CobbDouglasModel(request.tfp, request.alpha, request.beta)
         IN  Produced(request, self,
                      [capital |-> request.capital, labor |-> request.labor],
                      production(self, request.capital.v, request.labor.v),
                      marginal_product_capital(self, request.capital.v,
                                               request.labor.v),
                      marginal_product_labor(self, request.capital.v,
                                             request.labor.v))

Optimized(request, self, a, out, res) ==
    Handled("optimize_production", request,
            IF Raised(out) THEN ServerError(out) ELSE Ok(out.value),
            <<Call("optimal_allocation", self, a, out)>>,
            Solved(res))

\* class OptimizationRequest(BaseModel)
OptimizationRequest(budget, capital_price, labor_price, tfp, alpha, beta) ==
    [budget |-> budget, capital_price |-> capital_price,
     labor_price |-> labor_price, tfp |-> tfp, alpha |-> alpha, beta |-> beta]

\* the body of the handler of POST /optimize for a parsed request
optimize_production(request) ==
    IF ~(/\ ValidPositive(request.budget)
         /\ ValidPositive(request.capital_price)
         /\ ValidPositive(request.labor_price))
    THEN Handled("optimize_production", request, Unprocessable, <<>>, NoSolver)
    ELSE LET self == CobbDouglasModel(request.tfp, request.alpha, request.beta)
         IN  Optimized(request, self,
                       [budget |-> request.budget,
                        capital_price |-> request.capital_price,
                        labor_price |-> request.labor_price],
                       optimal_allocation(self, request.budget.v,
                                          request.capital_price.v,
                                          request.labor_price.v),
                       SolverResult(self, request.budget.v,
                                    request.capital_price.v,
                                    request.labor_price.v))

\* None * v: the power has been computed, the product raises
NoneTimes(p) == IF Raised(p) THEN p ELSE Raise("TypeError")

\* DemandModel.demand_quantity / DemandModel.revenue as the handler calls
\* them: base_price and base_quantity may be None
DemandCall(fn, price, elasticity, base_price, base_quantity) ==
    IF ~IsNum(base_price) THEN Raise("TypeError")
    ELSE IF ~IsNum(base_quantity)
         THEN NoneTimes(demand_quantity(price.v, elasticity.v, base_price.v, ROne))
    ELSE IF fn = "revenue"
         THEN revenue(price.v, elasticity.v, base_price.v, base_quantity.v)
    ELSE demand_quantity(price.v, elasticity.v, base_price.v, base_quantity.v)

DefaultBasePrice == RInt(100)
DefaultBaseQuantity == RInt(1000)

\* the response of calculate_demand for the outcomes of its two calls
DemandResponse(request, quantity, rev) ==
    IF Raised(quantity) THEN ServerError(quantity)
    ELSE IF Raised(rev) THEN ServerError(rev)
    ELSE IF ~(Rounds(quantity.value) /\ Rounds(rev.value))
         THEN ServerError(Raise("TypeError"))
    ELSE Ok([price |-> request.price.v,
             quantity_demanded |-> RoundF(quantity.value, 2),
             total_revenue |-> RoundF(rev.value, 2),
             elasticity |-> request.elasticity.v])

\* the core calls of calculate_demand, up to the first one that raises
DemandLog(a, quantity, rev) ==
    IF Raised(quantity) THEN <<Call("demand_quantity", Static, a, quantity)>>
    ELSE <<Call("demand_quantity", Static, a, quantity),
           Call("revenue", Static, a, rev)>>

Demanded(request, a, quantity, rev) ==
    Handled("calculate_demand", request,
            DemandResponse(request, quantity, rev),
            DemandLog(a, quantity, rev), NoSolver)

\* the arguments calculate_demand passes to the core
DemandArgs(request) ==
    [price |-> request.price, elasticity |-> request.elasticity,
     base_price |-> WithDefault(request.base_price, DefaultBasePrice),
     base_quantity |-> WithDefault(request.base_quantity, DefaultBaseQuantity)]

DemandWith(request, a) ==
    Demanded(request, a,
             DemandCall("demand_quantity", a.price, a.elasticity,
                        a.base_price, a.base_quantity),
             DemandCall("revenue", a.price, a.elasticity,
                        a.base_price, a.base_quantity))

\* class DemandRequest(BaseModel)
DemandRequest(price, elasticity, base_price, base_quantity) ==
    [price |-> price, elasticity |-> elasticity,
     base_price |-> base_price, base_quantity |-> base_quantity]

\* the body of the handler of POST /demand for a parsed request
calculate_demand(request) ==
    IF ~(ValidPositive(request.price) /\ ValidRequired(request.elasticity))
    THEN Handled("calculate_demand", request, Unprocessable, <<>>, NoSolver)
    ELSE DemandWith(request, DemandArgs(request))

PriceFound(request, a, out) ==
    Handled("find_optimal_price", request,
            IF Raised(out) THEN ServerError(out) ELSE Ok(out.value),
            <<Call("optimal_price", Static, a, out)>>, NoSolver)

\* class OptimalPriceRequest(BaseModel)
OptimalPriceRequest(elasticity, marginal_cost) ==
    [elasticity |-> elasticity, marginal_cost |-> marginal_cost]

\* the body of the handler of POST /optimal-price for a parsed request
find_optimal_price(request) ==
    IF ~(ValidRequired(request.elasticity) /\ ValidPositive(request.marginal_cost))
    THEN Handled("find_optimal_price", request, Unprocessable, <<>>, NoSolver)
    ELSE PriceFound(request,
                    [elasticity |-> request.elasticity,
                     marginal_cost |-> request.marginal_cost],
                    optimal_price(request.elasticity.v, request.marginal_cost.v))

\* POST /production
CalculateProduction(capital, labor, tfp, alpha, beta) ==
    /\ calculate_production(ProductionRequest(capital, labor, tfp, alpha, beta))
    /\ UNCHANGED <<model, model0>>

\* POST /optimize
OptimizeProduction(budget, capital_price, labor_price, tfp, alpha, beta) ==
    /\ optimize_production(OptimizationRequest(budget, capital_price,
                                               labor_price, tfp, alpha, beta))
    /\ UNCHANGED <<model, model0>>

\* POST /demand
CalculateDemand(price, elasticity, base_price, base_quantity) ==
    /\ calculate_demand(DemandRequest(price, elasticity, base_price,
                                      base_quantity))
    /\ UNCHANGED <<model, model0>>

\* POST /optimal-price
FindOptimalPrice(elasticity, marginal_cost) ==
    /\ find_optimal_price(OptimalPriceRequest(elasticity, marginal_cost))
    /\ UNCHANGED <<model, model0>>

Next ==
    \/ \E capital \in Quantities, labor \in Quantities :
          \/ Production(capital, labor)
          \/ MarginalProductCapital(capital, labor)
          \/ MarginalProductLabor(capital, labor)
    \/ \E budget \in Budgets, capital_price \in Prices, labor_price \in Prices :
          OptimalAllocation(budget, capital_price, labor_price)
    \/ \E price \in DemandPrices, elasticity \in Elasticities,
          base_price \in BasePrices, base_quantity \in BaseQuantities :
          DemandQuantity(price, elasticity, base_price, base_quantity)
    \/ \E price \in DemandPrices, elasticity \in Elasticities :
          Revenue(price, elasticity, ROne, DefaultBaseQuantity)
    \/ \E elasticity \in Elasticities, marginal_cost \in Costs :
          OptimalPrice(elasticity, marginal_cost)
    \/ \E capital \in ReqQuantities, labor \in ReqQuantities, p \in Parameters :
          CalculateProduction(capital, labor, p[1], p[2], p[3])
    \/ \E budget \in ReqBudgets, capital_price \in ReqPrices,
          labor_price \in ReqPrices, p \in ReqOptimizeParameters :
          OptimizeProduction(budget, capital_price, labor_price,
                             p[1], p[2], p[3])
    \/ \E price \in ReqDemandPrices, elasticity \in ReqElasticities,
          base_price \in ReqBasePrices, base_quantity \in ReqBaseQuantities :
          CalculateDemand(price, elasticity, base_price, base_quantity)
    \/ \E elasticity \in ReqPriceElasticities, marginal_cost \in ReqCosts :
          FindOptimalPrice(elasticity, marginal_cost)

Spec == Init /\ [][Next]_vars

\* ------------------------------------------------------------------------
\* Properties
\* ------------------------------------------------------------------------

\* the core calls of the last operation
CoreCalls == {calls[i] : i \in DOMAIN calls}
CallsOf(fn) == {c \in CoreCalls : c.fn = fn}
Handlers == {"calculate_production", "optimize_production",
             "calculate_demand", "find_optimal_price"}

\* |a - b| <= tolerance
Within(a, b, tolerance) == RLe(RAbs(RSub(a, b)), tolerance)

\* a call of optimal_price with numbers for both arguments
PriceCall(c) == IsNum(c.args.elasticity) /\ IsNum(c.args.marginal_cost)

\* the call returned the error mapping and no price
ErrorMapping(c) ==
    /\ c.out.kind = "return"
    /\ "error" \in DOMAIN c.out.value
    /\ "optimal_price" \notin DOMAIN c.out.value
    /\ "markup_percentage" \notin DOMAIN c.out.value

\* C1: for every elasticity >= 0, 0 included, and every marginal cost,
\* optimal_price returns (does not raise) a mapping with an 'error' field and
\* with neither 'optimal_price' nor 'markup_percentage'.
C1_ErrorResult ==
    \A c \in CallsOf("optimal_price") :
        (PriceCall(c) /\ RLe(RZero, c.args.elasticity.v)) => ErrorMapping(c)

\* optimal_price has been called with elasticity exactly 0 and has returned
\* the error mapping
C1_Witness ==
    \E c \in CallsOf("optimal_price") :
        /\ PriceCall(c)
        /\ RIsZero(c.args.elasticity.v)
        /\ c.out = Return([error |-> ElasticityError])

\* marginalCost / (1 + 1/elasticity) and the markup in percent, both rounded
\* to 2 decimals; the markup from the unrounded price
ExpectedPrice(elasticity, marginal_cost) ==
    RQuot(marginal_cost, RAdd(ROne, RQuot(ROne, elasticity)))
ExpectedMarkup(price, marginal_cost) ==
    RQuot(RMul(RInt(100), RSub(price, marginal_cost)), marginal_cost)
PriceMapping(c, price) ==
    /\ DOMAIN c.out.value = {"optimal_price", "markup_percentage"}
    /\ c.out.value.optimal_price = Round(price, 2)
    /\ c.out.value.markup_percentage =
           Round(ExpectedMarkup(price, c.args.marginal_cost.v), 2)

\* C2: for every elasticity < 0, -1 and those of (-1, 0) included, and every
\* marginal cost > 0, optimal_price returns a mapping with exactly the fields
\* optimal_price and markup_percentage, of the values of the markup formula
\* rounded to 2 decimals.
C2_PriceResult ==
    \A c \in CallsOf("optimal_price") :
        (/\ PriceCall(c)
         /\ RLt(c.args.elasticity.v, RZero)
         /\ RLt(RZero, c.args.marginal_cost.v))
        => /\ c.out.kind = "return"
           /\ PriceMapping(c, ExpectedPrice(c.args.elasticity.v,
                                            c.args.marginal_cost.v))

\* the closed-form share of the budget: (e / (alpha + beta)) * budget / price
ClosedFormShare(self, e, budget, price) ==
    RQuot(RMul(RQuot(e, RAdd(self.alpha, self.beta)), budget), price)
ClosedFormK(c) ==
    ClosedFormShare(c.self, c.self.alpha, c.args.budget.v, c.args.capital_price.v)
ClosedFormL(c) ==
    ClosedFormShare(c.self, c.self.beta, c.args.budget.v, c.args.labor_price.v)

\* one unit of the 2-decimal rounding of capital and labor
Tolerance == Rat(1, 100)
\* what the rounding of capital and of labor, half a unit each, can change
\* in the spending
SpendingTolerance(c) ==
    RMul(RQuot(Tolerance, RInt(2)),
         RAdd(c.args.capital_price.v, c.args.labor_price.v))

\* alpha and beta in (0, 1), and budget and prices positive
StandardProblem(c) ==
    /\ RLt(RZero, c.self.alpha) /\ RLt(c.self.alpha, ROne)
    /\ RLt(RZero, c.self.beta) /\ RLt(c.self.beta, ROne)
    /\ ValidPositive(c.args.budget)
    /\ ValidPositive(c.args.capital_price)
    /\ ValidPositive(c.args.labor_price)

\* the capital and labor of the mapping spend the budget
ExhaustsBudget(c) ==
    Within(budget_constraint(c.args.budget.v, c.args.capital_price.v,
                             c.args.labor_price.v,
                             <<c.out.value.capital, c.out.value.labor>>),
           RZero, SpendingTolerance(c))

\* the capital and labor of the mapping are the closed-form shares
MatchesClosedForm(c) ==
    /\ Within(c.out.value.capital, ClosedFormK(c), Tolerance)
    /\ Within(c.out.value.labor, ClosedFormL(c), Tolerance)

\* both closed-form shares satisfy the bounds of the solver
SharesWithinBounds(c) ==
    RLe(LowerBound, ClosedFormK(c)) /\ RLe(LowerBound, ClosedFormL(c))

\* C3, as the code has it: for alpha, beta in (0,1) and positive budget and
\* prices whose closed-form shares are both at least the lower bound 0.01,
\* optimal_allocation returns capital and labor that spend the budget and
\* equal the closed-form shares, within the 2-decimal rounding.
C3_ClosedFormWithinBounds ==
    \A c \in CallsOf("optimal_allocation") :
        (StandardProblem(c) /\ SharesWithinBounds(c))
        => /\ c.out.kind = "return"
           /\ ExhaustsBudget(c)
           /\ MatchesClosedForm(c)

\* optimal_allocation has returned for alpha # beta and unequal prices, both
\* shares within the bounds and different from the initial guess
C3_Witness ==
    \E c \in CallsOf("optimal_allocation") :
        /\ StandardProblem(c) /\ SharesWithinBounds(c)
        /\ c.self.alpha # c.self.beta
        /\ c.args.capital_price # c.args.labor_price
        /\ solver.called /\ solver.success
        /\ c.out.kind = "return"
        /\ c.out.value.capital # c.out.value.labor
        /\ MatchesClosedForm(c)

\* C3 as stated, for the calls whose solver run converged: for alpha, beta in
\* (0,1) and positive budget and prices the returned capital and labor spend
\* the budget and equal the closed-form shares.  (The statement is about
\* every call; it is refuted already among the converged ones, where a share
\* below 0.01 is held at the bound.)
C3_ClosedFormAlways ==
    (solver.called /\ solver.success)
    => \A c \in CallsOf("optimal_allocation") :
           StandardProblem(c)
           => /\ c.out.kind = "return"
              /\ ExhaustsBudget(c)
              /\ MatchesClosedForm(c)

\* C4: when the solver run of optimal_allocation reports failure,
\* optimal_allocation raises; it returns no mapping built from the solver's x.
C4_FailureSurfaced ==
    (solver.called /\ ~solver.success)
    => \A c \in CallsOf("optimal_allocation") : Raised(c.out)

\* the values of the three calls of one /production request
EulerCase ==
    /\ op = "calculate_production"
    /\ Len(calls) = 3
    /\ \A i \in 1..3 : calls[i].out.kind = "return"
    /\ RAdd(calls[1].self.alpha, calls[1].self.beta) = ROne
    /\ RLt(RZero, calls[1].self.A)
\* factor * marginal product * quantity
EulerTerm(factor, marginal_product, quantity) ==
    FMul(Float(factor), FMul(marginal_product, Float(quantity.v)))

\* C5, as the code has it: for A > 0, K > 0, L > 0 and alpha + beta = 1,
\* marginal_product_capital(K,L) * K + marginal_product_labor(K,L) * L
\* equals production(K,L).
C5_Euler ==
    EulerCase
    => FAdd(EulerTerm(ROne, calls[2].out.value, calls[2].args.capital),
            EulerTerm(ROne, calls[3].out.value, calls[3].args.labor))
       = calls[1].out.value

\* the three values for K = 2, L = 1 and alpha # beta: an irrational output
C5_Witness ==
    /\ EulerCase
    /\ calls[1].args.capital # calls[1].args.labor
    /\ calls[1].self.alpha # calls[1].self.beta
    /\ calls[1].out.value.f # NoFactors
    /\ FAdd(EulerTerm(ROne, calls[2].out.value, calls[2].args.capital),
            EulerTerm(ROne, calls[3].out.value, calls[3].args.labor))
       = calls[1].out.value

\* C5 as stated: alpha * marginal_product_capital(K,L) * K
\* + beta * marginal_product_labor(K,L) * L equals production(K,L).
C5_EulerWeighted ==
    EulerCase
    => FAdd(EulerTerm(calls[1].self.alpha, calls[2].out.value,
                      calls[2].args.capital),
            EulerTerm(calls[1].self.beta, calls[3].out.value,
                      calls[3].args.labor))
       = calls[1].out.value

\* a call of demand_quantity at the reference price: price = base_price > 0
\* and a number for base_quantity
AtReferencePrice(c) ==
    /\ IsNum(c.args.price) /\ IsNum(c.args.elasticity)
    /\ IsNum(c.args.base_price) /\ IsNum(c.args.base_quantity)
    /\ RLt(RZero, c.args.base_price.v)
    /\ c.args.price = c.args.base_price

\* C6: for every elasticity, every basePrice > 0 and every baseQuantity,
\* demand_quantity(basePrice, e, basePrice, baseQuantity) is baseQuantity.
C6_ReferencePoint ==
    \A c \in CallsOf("demand_quantity") :
        AtReferencePrice(c) => c.out = Return(Float(c.args.base_quantity.v))

\* demand_quantity has been called at a reference price other than 1 with a
\* negative elasticity that is not an integer
C6_Witness ==
    \E c \in CallsOf("demand_quantity") :
        /\ AtReferencePrice(c)
        /\ c.args.base_price.v # ROne
        /\ RLt(c.args.elasticity.v, RZero)
        /\ ~RIsInt(c.args.elasticity.v)
        /\ c.out = Return(Float(c.args.base_quantity.v))

CobbDouglasOperations ==
    {"production", "marginal_product_capital", "marginal_product_labor",
     "optimal_allocation"}

\* what the operation of call c yields for the arguments and the instance of
\* c alone
OutcomeOf(c) ==
    IF c.fn = "production"
    THEN production(c.self, c.args.capital.v, c.args.labor.v)
    ELSE IF c.fn = "marginal_product_capital"
    THEN marginal_product_capital(c.self, c.args.capital.v, c.args.labor.v)
    ELSE IF c.fn = "marginal_product_labor"
    THEN marginal_product_labor(c.self, c.args.capital.v, c.args.labor.v)
    ELSE optimal_allocation(c.self, c.args.budget.v, c.args.capital_price.v,
                            c.args.labor_price.v)

Undefined(base, exponent) ==
    \/ RIsZero(base) /\ RLt(exponent, RZero)
    \/ RLt(base, RZero) /\ ~RIsInt(exponent)

\* a power of call c is undefined: capital ** ec or labor ** el
UndefinedPower(c, ec, el) ==
    \/ Undefined(c.args.capital.v, ec)
    \/ Undefined(c.args.labor.v, el)

\* a call of production or of a marginal product with an undefined power
DomainError(c) ==
    \/ /\ c.fn = "production"
       /\ UndefinedPower(c, c.self.alpha, c.self.beta)
    \/ /\ c.fn = "marginal_product_capital"
       /\ UndefinedPower(c, RSub(c.self.alpha, ROne), c.self.beta)
    \/ /\ c.fn = "marginal_product_labor"
       /\ UndefinedPower(c, c.self.alpha, RSub(c.self.beta, ROne))

\* C8: production, marginal_product_capital and marginal_product_labor,
\* called with capital or labor for which a power is undefined (zero to a
\* negative exponent, a negative base to a non-integer exponent), raise and
\* return no value.
C8_DomainErrorRaised ==
    \A c \in CoreCalls : DomainError(c) => Raised(c.out)

\* the arguments the core documents as positive
PositiveArguments ==
    {"capital", "labor", "budget", "capital_price", "labor_price",
     "price", "base_price", "marginal_cost"}

\* C9: every core call of the handlers of /production, /optimize, /demand
\* and /optimal-price has numbers greater than 0 for capital, labor, budget,
\* capital_price, labor_price, price, base_price and marginal_cost.
C9_ValidCoreArguments ==
    op \in Handlers
    => \A c \in CoreCalls :
           \A a \in DOMAIN c.args \cap PositiveArguments :
               ValidPositive(c.args[a])

\* C10: for every budget > 0 and prices > 0, budgets below
\* 0.01 * (capital_price + labor_price) included, optimal_allocation returns
\* capital >= 0.01 and labor >= 0.01 that spend the budget.
C10_BoundsAndBudget ==
    \A c \in CallsOf("optimal_allocation") :
        (/\ ValidPositive(c.args.budget)
         /\ ValidPositive(c.args.capital_price)
         /\ ValidPositive(c.args.labor_price))
        => /\ c.out.kind = "return"
           /\ RLe(LowerBound, c.out.value.capital)
           /\ RLe(LowerBound, c.out.value.labor)
           /\ ExhaustsBudget(c)
====
